---- MODULE Spec2Model ----
(***************************************************************************)
(* A model of the Multi-Source Content Intelligence System:                *)
(*   - the two completion clients (call_groq_api_for_webpage, call_groq_api)*)
(*     with their retry loop, one HTTP request per step;                   *)
(*   - the two summarization jobs that use them (summarize_webpage and the *)
(*     "Get Summary" handler of the YouTube section);                      *)
(*   - the Streamlit session handlers of app.py with the document loader   *)
(*     and the transcript extraction (extract_transcript_details).         *)
(* Python strings are sequences of tokens (each token a TLA+ string), so   *)
(* that formatting is concatenation and strip() really removes something.  *)
(***************************************************************************)
EXTENDS Integers, Sequences, FiniteSets, TLC

VARIABLES
    job,          \* which summarization job runs: "none", "web", "yt"
    pc,           \* position of the job: "idle", "chunk", "fold", "done", "raised"
    chunks,       \* the job's chunks (list of strings)
    summaries,    \* summaries / full_summary: the partial summaries so far
    call,         \* the completion call in progress (prompt, content, attempt, ...)
    lastCall,     \* the last completion call that ended, with what it saw and did
    calls,        \* the completion calls of the job that ended: prompt, content, result
    nreq,         \* HTTP requests sent by the job so far
    source,       \* what the job summarizes: webpage_data or the transcript
    result,       \* what the job returned
    listing,      \* load_documents: os.listdir(directory_path)
    idx,          \* load_documents: files of the listing handled so far
    documents,    \* load_documents: the documents list
    loadPc,       \* load_documents: "idle", "loading", "returned", "raised"
    transcript_text,    \* st.session_state.transcript_text
    video_id,           \* st.session_state.video_id
    rag_system,         \* st.session_state.rag_system
    qa_chain,           \* st.session_state.qa_chain
    chat_history,       \* st.session_state.chat_history
    summary_generated,  \* st.session_state.summary_generated
    webpage_summary,    \* st.session_state.webpage_summary
    webpage_url,        \* st.session_state.webpage_url
    runs,         \* MultiFormatRAG objects created so far: the identity of the next
    lastQuery,    \* the last question since a source was initialized, and what answered it
    noDocs,       \* the last initialization was a RAG one whose directory gave no documents
    prevChain,    \* the qa_chain the session held when the last "Initialize RAG System" began
    fetched       \* the last "Initialize YouTube Summary": what YouTube gave, what
                  \* extract_transcript_details did with it

jobVars ==
    <<job, pc, chunks, summaries, call, lastCall, calls, nreq, source, result>>

loadVars == <<listing, idx, documents, loadPc>>

sessVars ==
    <<transcript_text, video_id, rag_system, qa_chain, chat_history,
      summary_generated, webpage_summary, webpage_url, runs, lastQuery, noDocs,
      prevChain, fetched>>

vars == <<jobVars, loadVars, sessVars>>

\* ------------------------------------------------------------------ bounds

\* the splitter returns at most this many chunks
MaxChunks == 3
\* number of characters one "B" token of a page stands for
BlockLen == 1000
\* a transcript has at most this many chunk_size groups, plus one entry
MaxGroups == 2
\* a directory holds at most this many files
MaxFiles == 2
\* a file loads into at most this many documents
MaxDocs == 2
\* "Initialize RAG System" creates at most this many MultiFormatRAG objects
MaxRuns == 2
\* the chat history grows to at most this many messages
MaxHistory == 4
\* YouTube returns at most this many transcript items
MaxItems == 3
\* chunk_transcript is applied to transcripts of at most this many entries
MaxEntries == 12
\* and with a chunk_size of at most this
MaxSize == 8
\* the webpage jobs followed to their end have at most this many chunks
LiveChunks == 2

\* --------------------------------------------------------- program constants

ChunkSize == 2000
MaxAttempts == 3
BackoffBase == 10
BackoffCap == 60
YtChunkSize == 20
GroupSpan == 30
FirstLast == -30

\* ------------------------------------------------------------ Python values

None == [some |-> FALSE]
Some(v) == [some |-> TRUE, val |-> v]

Min(a, b) == IF a < b THEN a ELSE b

\* whitespace tokens, as str.strip() sees them
Whitespace == {" ", "\n", "\n\n"}

RECURSIVE LStrip(_)
LStrip(s) ==
    IF s # <<>> /\ Head(s) \in Whitespace THEN LStrip(Tail(s)) ELSE s

RECURSIVE RStrip(_)
RStrip(s) ==
    IF s # <<>> /\ s[Len(s)] \in Whitespace
    THEN RStrip(SubSeq(s, 1, Len(s) - 1))
    ELSE s

\* str.strip()
Strip(s) == RStrip(LStrip(s))

\* len() of a page text: a "B" token is a block of BlockLen characters
RECURSIVE PyLen(_)
PyLen(s) ==
    IF s = <<>> THEN 0
    ELSE (IF Head(s) = "B" THEN BlockLen ELSE 1) + PyLen(Tail(s))

\* sep.join(parts)
RECURSIVE Join(_, _)
Join(sep, parts) ==
    IF parts = <<>> THEN <<>>
    ELSE IF Len(parts) = 1 THEN parts[1]
    ELSE parts[1] \o sep \o Join(sep, Tail(parts))

\* dict.get(key, default)
Get(d, k, default) == IF k \in DOMAIN d THEN d[k] ELSE default

EmptyDict == [k \in {} |-> None]

\* ------------------------------------------------- responses of the endpoint

PlaceholderText == <<"No response from model.">>

\* a JSON string value and JSON null
JStr(s) == [type |-> "str", s |-> s]
JNull == [type |-> "null"]

WithContent(c) == [choices |-> <<[message |-> [content |-> c]]>>]

\* the payloads a 200 response may carry
GoodPayloads ==
    { WithContent(JStr(<<"summary">>)),
      WithContent(JStr(<<" ", "summary", "\n">>)) }

\* structurally present but empty payloads
EmptyPayloads ==
    { EmptyDict,                               \* choices missing
      [choices |-> <<>>],                      \* choices an empty list
      [choices |-> <<EmptyDict>>],             \* message missing
      [choices |-> <<[message |-> EmptyDict]>>], \* content missing
      WithContent(JStr(<<>>)) }                \* content empty

OddPayloads == { WithContent(JNull) }

Payloads == GoodPayloads \cup EmptyPayloads \cup OddPayloads

Http(status, jsonOk, json, text) ==
    [kind |-> "http", status |-> status, jsonOk |-> jsonOk, json |-> json, text |-> text]

Responses200 ==
    { Http(200, TRUE, p, <<"{...}">>) : p \in Payloads }
    \cup { Http(200, FALSE, EmptyDict, <<"<html>">>) }

Response429 == Http(429, TRUE, EmptyDict, <<"rate limit">>)

OtherStatuses == {401, 500}

ResponsesOther ==
    { Http(s, TRUE, EmptyDict, <<"body of ", ToString(s)>>) : s \in OtherStatuses }

TimeoutOutcome == [kind |-> "timeout", msg |-> <<"timed out">>]
ExceptionOutcome == [kind |-> "exception", msg |-> <<"connection refused">>]

Outcomes ==
    Responses200 \cup {Response429} \cup ResponsesOther
    \cup {TimeoutOutcome, ExceptionOutcome}

\* --------------------------------------------------- the completion clients

\* what one pass of the retry loop's body does
Return(v) == [act |-> "return", value |-> v, sleep |-> 0]
Raise(msg) == [act |-> "raise", value |-> msg, sleep |-> 0]
Sleep(t) == [act |-> "sleep", value |-> <<>>, sleep |-> t]

\* response.json().get("choices", [{}])[0].get("message", {})
\*     .get("content", "No response from model.").strip()
ExtractContent(resp) ==
    IF ~resp.jsonOk THEN Raise(<<"Expecting value">>)
    ELSE LET c == Get(resp.json, "choices", <<EmptyDict>>) IN
         IF Len(c) = 0 THEN Raise(<<"list index out of range">>)
         ELSE LET m == Get(c[1], "message", EmptyDict)
                  t == Get(m, "content", JStr(PlaceholderText))
              IN  IF t.type = "null"
                  THEN Raise(<<"'NoneType' object has no attribute 'strip'">>)
                  ELSE Return(Strip(t.s))

\* a slip in the backoff: 2 * attempt * 10 for 2 ** attempt * 10
WaitTimeProduct(attempt) == Min(BackoffCap, (2 * attempt) * BackoffBase)

\* a slip in the backoff: the exponent one too high
WaitTimeShifted(attempt) == Min(BackoffCap, (2 ^ (attempt + 1)) * BackoffBase)

\* wait_time = min(60, 2 ** attempt * 10)
WaitTime(attempt) == Min(BackoffCap, (2 ^ attempt) * BackoffBase)

\* a slip in the status test: server errors are retried like rate limits
OnResponseRetry5xx(attempt, resp) ==
    IF resp.status = 200 THEN ExtractContent(resp)
    ELSE IF resp.status = 429 \/ resp.status >= 500 THEN Sleep(WaitTime(attempt))
    ELSE Return(<<"Error: ", ToString(resp.status), ", ">> \o resp.text)

\* the if / elif / else on response.status_code, shared by both clients
OnResponse(attempt, resp) ==
    IF resp.status = 200 THEN ExtractContent(resp)
    ELSE IF resp.status = 429 THEN Sleep(WaitTime(attempt))
    ELSE Return(<<"Error: ", ToString(resp.status), ", ">> \o resp.text)

TimeoutError == <<"Error: Request timeout. Please try again.">>
TooManyRetries == <<"Error: Too many retries due to rate limit.">>

\* the except clauses of call_groq_api_for_webpage
WebCatch(r) ==
    IF r.act = "raise" THEN Return(<<"Error: ">> \o r.value) ELSE r

\* a slip: the try / except left out, as in call_groq_api
call_groq_api_for_webpage_uncaught(attempt, outcome) ==
    IF outcome.kind \in {"timeout", "exception"} THEN Raise(outcome.msg)
    ELSE OnResponse(attempt, outcome)

\* one pass of the loop body of call_groq_api_for_webpage: try / except
call_groq_api_for_webpage(attempt, outcome) ==
    IF outcome.kind = "timeout" THEN Return(TimeoutError)
    ELSE IF outcome.kind = "exception" THEN WebCatch(Raise(outcome.msg))
    ELSE WebCatch(OnResponse(attempt, outcome))

\* one pass of the loop body of call_groq_api: no try, whatever
\* requests.post or the extraction raises leaves the function
call_groq_api(attempt, outcome) ==
    IF outcome.kind \in {"timeout", "exception"} THEN Raise(outcome.msg)
    ELSE OnResponse(attempt, outcome)

Client(j, attempt, outcome) ==
    IF j = "web" THEN call_groq_api_for_webpage(attempt, outcome)
    ELSE call_groq_api(attempt, outcome)

\* ------------------------------------------------------------- the chunkers

Piece(k) == <<"piece ", ToString(k)>>

\* what RecursiveCharacterTextSplitter.split_text may return: library code,
\* any number of pieces up to the bound
SplitTexts == { [k \in 1..n |-> Piece(k)] : n \in 0..MaxChunks }

\* a slip: the short-content shortcut left out, every content goes to the splitter
chunk_webpage_content_always_split(content, chunk_size, split) == split

\* a slip: return [content] without the test for an empty content
chunk_webpage_content_keep_empty(content, chunk_size, split) ==
    IF content = <<>> \/ PyLen(content) < chunk_size
    THEN <<content>>
    ELSE split

\* chunk_webpage_content(content, chunk_size), split the splitter's answer
chunk_webpage_content(content, chunk_size, split) ==
    IF content = <<>> \/ PyLen(content) < chunk_size
    THEN (IF content # <<>> THEN <<content>> ELSE <<>>)
    ELSE split

\* the page texts extraction may hand over
Contents ==
    { <<>>, <<"x">>, <<"B">>, <<"B", "x">>, <<"B", "B">>, <<"B", "B", "x">> }

\* one transcript entry: (timestamp, text)
Entry(k) == <<<<"ts", ToString(k)>>, <<"line ", ToString(k)>>>>

Transcript(n) == [k \in 1..n |-> Entry(k)]

\* f"[{ts}] {text}"
EntryLine(e) == <<"[">> \o e[1] \o <<"] ">> \o e[2]

\* a slip: range(0, len(transcript) - chunk_size + 1, chunk_size), the last
\* entries short of a full chunk are left out
chunk_transcript_full_only(transcript, chunk_size) ==
    [c \in 1..(Len(transcript) \div chunk_size) |->
       Join(<<"\n">>,
            [k \in 1..chunk_size |-> EntryLine(transcript[(c - 1) * chunk_size + k])])]

RECURSIVE chunk_transcript(_, _)
\* chunk_transcript(transcript, chunk_size): slices of chunk_size entries
chunk_transcript(transcript, chunk_size) ==
    IF transcript = <<>> THEN <<>>
    ELSE LET n == Min(chunk_size, Len(transcript))
             lines == [k \in 1..n |-> EntryLine(transcript[k])]
         IN  <<Join(<<"\n">>, lines)>>
             \o chunk_transcript(SubSeq(transcript, n + 1, Len(transcript)), chunk_size)

\* the transcripts a session may hold when "Get Summary" is shown (non-empty)
TranscriptLens ==
    {1, YtChunkSize} \cup { g * YtChunkSize + 1 : g \in 1..MaxGroups }

\* -------------------------------------------------------- the document loader

\* the keys of MultiFormatRAG.loader_map
LoaderExts == {".pdf", ".docx", ".txt", ".csv", ".html", ".md"}

\* the extensions of the files a directory may hold
FileExts == {".txt", ".PDF", ".exe", ""}

\* str.lower() on an extension
Lower(e) ==
    CASE e = ".PDF" -> ".pdf"
      [] e = ".TXT" -> ".txt"
      [] e = ".Md" -> ".md"
      [] OTHER -> e

\* a file of the directory: its name (stem, extension) and what its loader's
\* load() does with it, raise or return ndocs documents
File(k, ext, raises, ndocs) ==
    [name |-> <<"f", ToString(k), ext>>, ext |-> ext, raises |-> raises, ndocs |-> ndocs]

FilesAt(k) ==
    { File(k, e, TRUE, 0) : e \in FileExts }
    \cup { File(k, e, FALSE, n) : e \in FileExts, n \in 0..MaxDocs }

RECURSIVE ListingsOfLen(_)
ListingsOfLen(n) ==
    IF n = 0 THEN { <<>> }
    ELSE { Append(l, f) : l \in ListingsOfLen(n - 1), f \in FilesAt(n) }

\* os.listdir(directory_path)
Listings == UNION { ListingsOfLen(n) : n \in 0..MaxFiles }

\* loader.load(): the documents of a file that loads
Docs(file) == [k \in 1..file.ndocs |-> [source |-> file.name, page |-> k]]

\* a slip: the first file that fails to load ends the loop (break for continue)
LoadFileBreak(docs, file) ==
    IF Lower(file.ext) \in LoaderExts
    THEN IF file.raises
         THEN [documents |-> docs, raised |-> TRUE]
         ELSE [documents |-> docs \o Docs(file), raised |-> FALSE]
    ELSE [documents |-> docs, raised |-> FALSE]

\* the body of the for loop of load_documents, for one file
LoadFile(docs, file) ==
    IF Lower(file.ext) \in LoaderExts
    THEN IF file.raises
         THEN [documents |-> docs, raised |-> FALSE]            \* except: continue
         ELSE [documents |-> docs \o Docs(file), raised |-> FALSE]
    ELSE [documents |-> docs, raised |-> FALSE]

RECURSIVE LoadFrom(_, _)
LoadFrom(docs, files) ==
    IF files = <<>> THEN [documents |-> docs, raised |-> FALSE]
    ELSE LET r == LoadFile(docs, Head(files)) IN
         IF r.raised THEN r ELSE LoadFrom(r.documents, Tail(files))

\* MultiFormatRAG.load_documents(directory_path), given the directory's listing
load_documents(files) == LoadFrom(<<>>, files)

LoadIdle ==
    /\ listing = <<>>
    /\ idx = 0
    /\ documents = <<>>
    /\ loadPc = "idle"

\* load_documents is called: documents = []
LoadStart ==
    /\ loadPc = "idle"
    /\ \E l \in Listings :
         /\ listing' = l
         /\ idx' = 0
         /\ documents' = <<>>
         /\ loadPc' = IF l = <<>> THEN "returned" ELSE "loading"
    /\ UNCHANGED <<jobVars, sessVars>>

\* one pass of the for loop, and the return after the last file
LoadNext ==
    /\ loadPc = "loading"
    /\ LET r == LoadFile(documents, listing[idx + 1]) IN
       /\ documents' = r.documents
       /\ idx' = idx + 1
       /\ loadPc' = IF r.raised THEN "raised"
                    ELSE IF idx + 1 = Len(listing) THEN "returned"
                    ELSE "loading"
    /\ UNCHANGED <<listing, jobVars, sessVars>>


\* --------------------------------------------------------------- the prompts

PartPrompt(i, n) ==
    <<"Summarize this part ", ToString(i), " of ", ToString(n),
      " of the webpage content. Focus on key points and main ideas:">>

ComprehensivePrompt ==
    <<"Provide a comprehensive summary of this webpage content. Include key points, main ideas, and important details:">>

FinalPrompt ==
    <<"Create a comprehensive final summary of this webpage by combining all the parts. Focus on the most important information:">>

YtPrompt ==
    <<"Summarize the video while retaining key timestamps and explanations.">>

\* the prompt of chunk i (1-based) of n in summarize_webpage
WebPrompt(i, n) == IF n > 1 THEN PartPrompt(i, n) ELSE ComprehensivePrompt

\* a slip: the parts labelled from 0 (f"Part {i}") instead of from 1
combined_summaries_from_zero(ss) ==
    Join(<<"\n\n">>,
         [k \in 1..Len(ss) |-> <<"Part ", ToString(k - 1), ": ">> \o ss[k]])

\* "\n\n".join([f"Part {i+1}: {summary}" for i, summary in enumerate(summaries)])
combined_summaries(ss) ==
    Join(<<"\n\n">>,
         [k \in 1..Len(ss) |-> <<"Part ", ToString(k), ": ">> \o ss[k]])

\* ------------------------------------------------- the session state

\* extract_transcript_details not called
NoFetch == [called |-> FALSE]

\* no question asked yet
NoQuery ==
    [asked |-> FALSE, chain |-> 0, llm |-> FALSE, answer |-> <<>>,
     question |-> <<>>, failed |-> FALSE, failure |-> <<>>, raised |-> FALSE]

\* initialize_session_state() on a fresh session
initialize_session_state ==
    /\ transcript_text = None
    /\ video_id = None
    /\ rag_system = None
    /\ qa_chain = None
    /\ chat_history = <<>>
    /\ summary_generated = FALSE
    /\ webpage_summary = None
    /\ webpage_url = None
    /\ runs = 0
    /\ lastQuery = NoQuery
    /\ noDocs = FALSE
    /\ prevChain = None
    /\ fetched = NoFetch

\* the session fields a running job neither reads nor writes
sessKept ==
    <<transcript_text, video_id, rag_system, qa_chain, chat_history, runs,
      lastQuery, noDocs, prevChain, fetched>>

\* ------------------------------------------------------- the state of a job

NewCall(prompt, content) ==
    [prompt |-> prompt, content |-> content, attempt |-> 0,
     sleeps |-> <<>>, hist |-> <<>>]

NoCall == NewCall(<<>>, <<>>)

NoLast ==
    [ended |-> FALSE, client |-> "none", prompt |-> <<>>, content |-> <<>>,
     hist |-> <<>>, sleeps |-> <<>>, raised |-> FALSE, value |-> <<>>]

NoSource == [kind |-> "none"]

JobInit ==
    /\ job = "none"
    /\ pc = "idle"
    /\ chunks = <<>>
    /\ summaries = <<>>
    /\ call = NoCall
    /\ lastCall = NoLast
    /\ calls = <<>>
    /\ nreq = 0
    /\ source = NoSource
    /\ result = <<>>

\* what extract_webpage_content(url) returns: (webpage_data, None) or (None, error)
ExtractionErrors ==
    { <<"Invalid URL format. Please provide a valid URL starting with http:// or https://">>,
      <<"No content could be extracted from the webpage.">>,
      <<"Error accessing the webpage: ", "404 Client Error">>,
      <<"Error processing the webpage: ", "parse failure">> }

PageData(content) ==
    [kind |-> "page", title |-> <<"title">>, url |-> <<"https://example.com/">>,
     content |-> content]

Extractions ==
    { <<None, Some(e)>> : e \in ExtractionErrors }
    \cup { <<PageData(c), None>> : c \in Contents }

\* the dict summarize_webpage returns
SummaryData(data, final_summary, n) ==
    [title |-> data.title, url |-> data.url, summary |-> final_summary,
     chunks_processed |-> n, content_length |-> PyLen(data.content)]

\* summarize_webpage returns `pair` to the "Summarize Webpage" handler, which
\* stores the summary or shows the error
WebReturn(pair) ==
    /\ result' = pair
    /\ pc' = "done"
    /\ call' = NoCall
    /\ IF pair[2] # None
       THEN UNCHANGED <<webpage_summary, webpage_url>>
       ELSE /\ webpage_summary' = pair[1]
            /\ webpage_url' = Some(pair[1].url)

\* the "Summarize Webpage" handler: its resets, then summarize_webpage up to
\* its first completion call
StartWebpageFrom(splits) ==
    /\ pc = "idle"
    /\ transcript_text' = None
    /\ video_id' = None
    /\ summary_generated' = FALSE
    /\ rag_system' = None
    /\ qa_chain' = None
    /\ chat_history' = <<>>
    /\ lastQuery' = NoQuery
    /\ noDocs' = FALSE
    /\ prevChain' = None
    /\ fetched' = NoFetch
    /\ UNCHANGED runs
    /\ \E ex \in Extractions, split \in splits :
         LET webpage_data == ex[1]
             error == ex[2]
             cs == IF error # None THEN <<>>
                   ELSE chunk_webpage_content(webpage_data.content, ChunkSize, split)
         IN  /\ job' = "web"
             /\ summaries' = <<>>
             /\ lastCall' = NoLast
             /\ calls' = <<>>
             /\ nreq' = 0
             /\ chunks' = cs
             /\ source' = IF error # None THEN NoSource ELSE webpage_data
             /\ IF error # None
                THEN WebReturn(<<None, error>>)
                ELSE IF cs = <<>>
                THEN WebReturn(<<None,
                                 Some(<<"No content could be extracted from the webpage.">>)>>)
                ELSE /\ pc' = "chunk"
                     /\ call' = NewCall(WebPrompt(1, Len(cs)), cs[1])
                     /\ UNCHANGED <<result, webpage_summary, webpage_url>>

\* the "Get Summary" handler, shown while transcript_text is a non-empty
\* list, up to its first completion call
StartGetSummary ==
    /\ pc = "idle"
    /\ transcript_text # None
    /\ transcript_text.val # <<>>
    /\ summary_generated' = TRUE
    /\ LET transcript_chunks == chunk_transcript(transcript_text.val, YtChunkSize)
       IN  /\ job' = "yt"
           /\ summaries' = <<>>
           /\ lastCall' = NoLast
           /\ calls' = <<>>
           /\ nreq' = 0
           /\ chunks' = transcript_chunks
           /\ source' = [kind |-> "transcript", transcript |-> transcript_text.val,
                         chunk_size |-> YtChunkSize]
           /\ pc' = "chunk"
           /\ call' = NewCall(YtPrompt, transcript_chunks[1])
    /\ UNCHANGED <<result, sessKept, webpage_summary, webpage_url, loadVars>>

\* summarize_webpage after a completion call returned `value`
WebContinue(value) ==
    IF pc = "chunk"
    THEN LET ss == Append(summaries, value) IN
         /\ summaries' = ss
         /\ IF Len(ss) < Len(chunks)
            THEN /\ pc' = "chunk"
                 /\ call' = NewCall(WebPrompt(Len(ss) + 1, Len(chunks)), chunks[Len(ss) + 1])
                 /\ UNCHANGED <<result, webpage_summary, webpage_url>>
            ELSE IF Len(ss) > 1
            THEN /\ pc' = "fold"
                 /\ call' = NewCall(FinalPrompt, combined_summaries(ss))
                 /\ UNCHANGED <<result, webpage_summary, webpage_url>>
            ELSE WebReturn(<<SummaryData(source, ss[1], Len(chunks)), None>>)
    ELSE /\ WebReturn(<<SummaryData(source, value, Len(chunks)), None>>)
         /\ UNCHANGED summaries

\* the "Get Summary" handler after a completion call returned `value`
YtContinue(value) ==
    LET full_summary == Append(summaries, value) IN
    /\ summaries' = full_summary
    /\ UNCHANGED <<webpage_summary, webpage_url>>
    /\ IF Len(full_summary) < Len(chunks)
       THEN /\ pc' = "chunk"
            /\ call' = NewCall(YtPrompt, chunks[Len(full_summary) + 1])
            /\ UNCHANGED result
       ELSE /\ pc' = "done"
            /\ call' = NoCall
            /\ result' = [final_summary |-> full_summary,
                          download |-> Join(<<"\n">>, full_summary)]

\* the completion call ends: it returns a string or an exception leaves it
\* (and the handler with it)
EndCall(end, hist, sleeps) ==
    /\ lastCall' =
         [ended |-> TRUE, client |-> job, prompt |-> call.prompt,
          content |-> call.content, hist |-> hist, sleeps |-> sleeps,
          raised |-> (end.act = "raise"), value |-> end.value]
    /\ calls' = Append(calls, [prompt |-> call.prompt, content |-> call.content,
                               raised |-> (end.act = "raise"), value |-> end.value])
    /\ IF end.act = "raise"
       THEN /\ pc' = "raised"
            /\ call' = NoCall
            /\ UNCHANGED <<summaries, result, webpage_summary, webpage_url>>
       ELSE IF job = "web" THEN WebContinue(end.value)
       ELSE YtContinue(end.value)

\* a slip: range(4), one pass more
LoopsAgainOnceMore(r, attempt) == r.act = "sleep" /\ attempt + 1 < MaxAttempts + 1

\* the for loop makes another pass: this pass neither returned nor raised and
\* attempt + 1 is in range(3)
LoopsAgain(r, attempt) == r.act = "sleep" /\ attempt + 1 < MaxAttempts

\* one HTTP request of the call in progress and what the client does with its
\* outcome: for attempt in range(3)
Request(outcome) ==
    /\ pc \in {"chunk", "fold"}
    /\ LET r == Client(job, call.attempt, outcome)
           hist == Append(call.hist, outcome)
           sleeps == IF r.act = "sleep" THEN Append(call.sleeps, r.sleep)
                     ELSE call.sleeps
       IN  /\ nreq' = nreq + 1
           /\ UNCHANGED <<job, chunks, source, sessKept, summary_generated, loadVars>>
           /\ IF LoopsAgain(r, call.attempt)
              THEN /\ call' = [call EXCEPT !.attempt = @ + 1,
                                           !.sleeps = sleeps, !.hist = hist]
                   /\ UNCHANGED <<pc, summaries, lastCall, calls, result,
                                  webpage_summary, webpage_url>>
              ELSE EndCall(IF r.act = "sleep" THEN Return(TooManyRetries) ELSE r,
                           hist, sleeps)

\* ------------------------------------------------------ the Streamlit session

\* the YouTube links the user may enter: extract_video_id finds an id or None
YoutubeLinks ==
    { [url |-> <<"https://youtu.be/", "dQw4w9WgXcQ">>, id |-> Some(<<"dQw4w9WgXcQ">>)],
      [url |-> <<"not a link">>, id |-> None] }

extract_video_id(link) == link.id

\* one raw transcript item: item["start"] in seconds, item["text"]
Item(k, start) == [start |-> start, text |-> <<"text ", ToString(k)>>]

\* the start times of the items, around the 30 second and the minute marks
Starts == {0, 29, 30, 31, 59, 60, 61}

RECURSIVE ItemsOfLen(_)
\* the item lists of n items, start times not decreasing
ItemsOfLen(n) ==
    IF n = 0 THEN { <<>> }
    ELSE UNION { { Append(l, Item(n, t)) :
                     t \in { u \in Starts : n = 1 \/ u >= l[n - 1].start } } :
                 l \in ItemsOfLen(n - 1) }

\* what the YouTube transcript API does for a video: get_transcript returns
\* items; NoTranscriptFound and a generated transcript is translated and
\* fetched; NoTranscriptFound and no generated transcript; TranscriptsDisabled;
\* any other exception
TranscriptData ==
    { [kind |-> k, items |-> l] :
        k \in {"items", "translated"},
        l \in UNION { ItemsOfLen(n) : n \in 0..MaxItems } }
    \cup { [kind |-> "none"], [kind |-> "disabled"],
           [kind |-> "fault", msg |-> <<"YouTube is blocking requests from your IP">>] }

\* f"{n:02}"
Pad2(n) == IF n < 10 THEN <<"0", ToString(n)>> ELSE <<ToString(n)>>

\* timestamp = f"{minutes:02}:{seconds:02}"
Timestamp(start) == Pad2(start \div 60) \o <<":">> \o Pad2(start % 60)

\* [("Error", message)]
ErrorResult(msg) == << <<<<"Error">>, msg>> >>

\* transcript.append((last_timestamp_text, " ".join(temp_text))); the name
\* last_timestamp_text is unbound until a group was opened
AppendGroup(transcript, last_timestamp_text, temp_text) ==
    Append(transcript, <<last_timestamp_text.val, Join(<<" ">>, temp_text)>>)

Unbound ==
    <<"cannot access local variable 'last_timestamp_text' where it is not associated with a value">>

\* a slip: a group is closed only once more than 30 seconds have passed
GroupOpensAfter(start, last_timestamp) == start - last_timestamp > GroupSpan

\* if item["start"] - last_timestamp >= 30
GroupOpens(start, last_timestamp) == start - last_timestamp >= GroupSpan

RECURSIVE GroupItems(_, _, _, _, _)
\* the for loop over transcript_data and the append after it, from the values
\* of transcript, last_timestamp, last_timestamp_text and temp_text
GroupItems(items, transcript, last_timestamp, last_timestamp_text, temp_text) ==
    IF items = <<>>
    THEN IF temp_text = <<>> THEN Return(transcript)
         ELSE IF last_timestamp_text = None THEN Raise(Unbound)
         ELSE Return(AppendGroup(transcript, last_timestamp_text, temp_text))
    ELSE LET item == Head(items)
             opens == GroupOpens(item.start, last_timestamp)
             closes == opens /\ temp_text # <<>>
         IN  IF closes /\ last_timestamp_text = None THEN Raise(Unbound)
             ELSE GroupItems(
                    Tail(items),
                    IF closes
                    THEN AppendGroup(transcript, last_timestamp_text, temp_text)
                    ELSE transcript,
                    IF opens THEN item.start ELSE last_timestamp,
                    IF opens THEN Some(Timestamp(item.start)) ELSE last_timestamp_text,
                    IF closes THEN <<item.text>> ELSE Append(temp_text, item.text))

\* the body of the outer try of extract_transcript_details
TranscriptBody(link, data) ==
    IF extract_video_id(link) = None
    THEN Return(ErrorResult(<<"Invalid YouTube URL.">>))
    ELSE IF data.kind \in {"items", "translated"}
    THEN GroupItems(data.items, <<>>, FirstLast, None, <<>>)
    ELSE IF data.kind = "none"
    THEN Return(ErrorResult(<<"No suitable transcript found.">>))
    ELSE IF data.kind = "disabled"
    THEN Return(ErrorResult(<<"Transcripts are disabled for this video.">>))
    ELSE Raise(data.msg)

\* a slip: extract_transcript_details without its outer try / except
extract_transcript_details_uncaught(link, data) == TranscriptBody(link, data)

\* extract_transcript_details(youtube_video_url): except Exception as e:
\* return [("Error", str(e))]
extract_transcript_details(link, data) ==
    LET r == TranscriptBody(link, data) IN
    IF r.act = "raise" THEN Return(ErrorResult(r.value)) ELSE r

\* the calls of extract_transcript_details a session may make
TranscriptResults ==
    { [link |-> l, data |-> d, out |-> extract_transcript_details(l, d)] :
        l \in YoutubeLinks, d \in TranscriptData }

\* "Initialize YouTube Summary", its call of extract_transcript_details being
\* one of `results`
InitializeYouTubeFrom(results) ==
    \E r \in results :
      LET youtube_link == r.link IN
      /\ rag_system' = None
      /\ qa_chain' = None
      /\ chat_history' = <<>>
      /\ webpage_summary' = None
      /\ webpage_url' = None
      /\ lastQuery' = NoQuery
      /\ noDocs' = FALSE
      /\ prevChain' = None
      /\ IF extract_video_id(youtube_link) # None
         THEN /\ video_id' = extract_video_id(youtube_link)
              /\ fetched' = [called |-> TRUE, data |-> r.data, out |-> r.out]
              /\ IF r.out.act = "raise"
                 THEN UNCHANGED <<transcript_text, summary_generated>>
                 ELSE IF r.out.value # <<>> /\ r.out.value[1][1] = <<"Error">>
                 THEN /\ transcript_text' = None
                      /\ UNCHANGED summary_generated
                 ELSE /\ transcript_text' = Some(r.out.value)
                      /\ summary_generated' = FALSE
         ELSE /\ fetched' = NoFetch
              /\ UNCHANGED <<video_id, transcript_text, summary_generated>>
      /\ UNCHANGED <<runs, jobVars, loadVars>>

InitializeYouTube == InitializeYouTubeFrom(TranscriptResults)

\* the directories "Initialize RAG System" may find in temp_docs
SessionListings ==
    { <<File(1, ".txt", TRUE, 0)>>,
      <<File(1, ".exe", FALSE, 1)>>,
      <<File(1, ".txt", FALSE, 1)>>,
      <<File(1, ".txt", TRUE, 0), File(2, ".PDF", FALSE, 2)>> }

\* where an exception may leave the handler's try block, besides the one
\* create_qa_chain raises on a None vectorstore
RagFaults == {"none", "write", "construct", "listdir", "index", "chain"}

\* MultiFormatRAG.process_documents(documents)
process_documents(docs) ==
    IF docs = <<>> THEN None ELSE [obj |-> "FAISS", texts |-> docs]

\* MultiFormatRAG.create_qa_chain(vectorstore, api_key): vectorstore.as_retriever
\* raises AttributeError on None
create_qa_chain(vectorstore, id) ==
    IF vectorstore = None
    THEN [raised |-> TRUE, chain |-> None]
    ELSE [raised |-> FALSE,
          chain |-> [obj |-> "RetrievalQA", id |-> id, corpus |-> vectorstore.texts]]

\* "Initialize RAG System"
InitializeRAG ==
    /\ runs < MaxRuns
    /\ \E files \in SessionListings, fault \in RagFaults :
         LET loaded == load_documents(files)
             vectorstore == process_documents(loaded.documents)
             made == create_qa_chain(vectorstore, runs + 1)
             constructed == fault \notin {"write", "construct"}
             reachedProcess == constructed /\ fault # "listdir" /\ ~loaded.raised
             reachedChain == reachedProcess /\ ~(fault = "index" /\ vectorstore # None)
             assigned == reachedChain /\ ~made.raised /\ fault # "chain"
         IN  /\ transcript_text' = None
             /\ video_id' = None
             /\ summary_generated' = FALSE
             /\ webpage_summary' = None
             /\ webpage_url' = None
             /\ runs' = IF constructed THEN runs + 1 ELSE runs
             /\ rag_system' = IF constructed
                              THEN [obj |-> "MultiFormatRAG", id |-> runs + 1]
                              ELSE rag_system
             /\ qa_chain' = IF assigned THEN made.chain ELSE qa_chain
             /\ lastQuery' = NoQuery
             /\ noDocs' = (reachedProcess /\ vectorstore = None)
             /\ prevChain' = qa_chain
             /\ fetched' = NoFetch
             /\ UNCHANGED <<chat_history, jobVars, loadVars>>

\* what summarize_webpage(api_key, url) may hand to the handler: a pair, or an
\* exception of the splitter
WebpageResults ==
    { [raised |-> FALSE,
       pair |-> <<None, Some(<<"No content could be extracted from the webpage.">>)>>],
      [raised |-> FALSE,
       pair |-> <<SummaryData(PageData(<<"x">>), <<"summary">>, 1), None>>],
      [raised |-> TRUE, pair |-> <<None, None>>] }

\* a slip: "Summarize Webpage" without the reset of rag_system and qa_chain
SummarizeWebpageKeepsChain ==
    \E r \in WebpageResults :
      /\ transcript_text' = None
      /\ video_id' = None
      /\ summary_generated' = FALSE
      /\ chat_history' = <<>>
      /\ lastQuery' = NoQuery
      /\ noDocs' = FALSE
      /\ prevChain' = None
      /\ fetched' = NoFetch
      /\ IF ~r.raised /\ r.pair[2] = None
         THEN /\ webpage_summary' = r.pair[1]
              /\ webpage_url' = Some(r.pair[1].url)
         ELSE UNCHANGED <<webpage_summary, webpage_url>>
      /\ UNCHANGED <<rag_system, qa_chain, runs, jobVars, loadVars>>

\* "Summarize Webpage"
SummarizeWebpage ==
    \E r \in WebpageResults :
      /\ transcript_text' = None
      /\ video_id' = None
      /\ summary_generated' = FALSE
      /\ rag_system' = None
      /\ qa_chain' = None
      /\ chat_history' = <<>>
      /\ lastQuery' = NoQuery
      /\ noDocs' = FALSE
      /\ prevChain' = None
      /\ fetched' = NoFetch
      /\ IF ~r.raised /\ r.pair[2] = None
         THEN /\ webpage_summary' = r.pair[1]
              /\ webpage_url' = Some(r.pair[1].url)
         ELSE UNCHANGED <<webpage_summary, webpage_url>>
      /\ UNCHANGED <<runs, jobVars, loadVars>>

\* "Get Summary", shown while transcript_text is a non-empty list; its
\* completion calls are the job of StartGetSummary
GetSummary ==
    /\ transcript_text # None
    /\ transcript_text.val # <<>>
    /\ summary_generated' = TRUE
    /\ UNCHANGED <<transcript_text, video_id, rag_system, qa_chain, chat_history,
                   webpage_summary, webpage_url, runs, lastQuery, noDocs, prevChain,
                   fetched,
                   jobVars, loadVars>>

\* what qa_chain.invoke(question) does: the answer of the language model, a
\* failure of the retrieval before the model is called, or a failure of the model
InvokeOutcomes ==
    { [raised |-> FALSE, llm |-> TRUE, text |-> <<"answer">>],
      [raised |-> TRUE, llm |-> FALSE, text |-> <<"embedding failed">>],
      [raised |-> TRUE, llm |-> TRUE, text |-> <<"rate limit exceeded">>] }

\* a slip: query without its try / except
query_uncaught(outcome) ==
    IF outcome.raised THEN Raise(outcome.text) ELSE Return(outcome.text)

\* a slip: the except clause logs the error and raises it again
query_reraises(outcome) ==
    IF outcome.raised THEN Raise(<<"Error processing query: ">> \o outcome.text)
    ELSE Return(outcome.text)

\* MultiFormatRAG.query(qa_chain, question): try / except Exception
query(outcome) ==
    IF outcome.raised THEN Return(<<"Error processing query: ">> \o outcome.text)
    ELSE Return(outcome.text)

Questions == { <<"question">> }

\* the RAG-Based Q&A section with a question typed in
AskQuestion ==
    /\ qa_chain # None
    /\ Len(chat_history) + 2 <= MaxHistory
    /\ \E user_input \in Questions, outcome \in InvokeOutcomes :
         LET asked == Append(chat_history, [role |-> "user", content |-> user_input])
             response == query(outcome)
         IN  IF rag_system = None
             THEN \* None.query raises AttributeError: st.error, no answer
                  /\ chat_history' = asked
                  /\ lastQuery' = [asked |-> TRUE, chain |-> qa_chain.id,
                                   llm |-> FALSE, answer |-> <<>>,
                                   question |-> user_input, failed |-> FALSE,
                                   failure |-> <<>>, raised |-> TRUE]
             ELSE IF response.act = "raise"
             THEN \* except Exception: st.error, no answer
                  /\ chat_history' = asked
                  /\ lastQuery' = [asked |-> TRUE, chain |-> qa_chain.id,
                                   llm |-> outcome.llm, answer |-> <<>>,
                                   question |-> user_input, failed |-> outcome.raised,
                                   failure |-> outcome.text, raised |-> TRUE]
             ELSE /\ chat_history' =
                       Append(asked, [role |-> "assistant", content |-> response.value])
                  /\ lastQuery' = [asked |-> TRUE, chain |-> qa_chain.id,
                                   llm |-> outcome.llm, answer |-> response.value,
                                   question |-> user_input, failed |-> outcome.raised,
                                   failure |-> outcome.text, raised |-> FALSE]
    /\ UNCHANGED <<transcript_text, video_id, rag_system, qa_chain, summary_generated,
                   webpage_summary, webpage_url, runs, noDocs, prevChain, fetched,
                   jobVars, loadVars>>

\* the outcomes drawn while a job of several calls runs: one of each kind
JobResponses200 ==
    { Http(200, TRUE, WithContent(JStr(<<" ", "summary", "\n">>)), <<"{...}">>),
      Http(200, TRUE, [choices |-> <<>>], <<"{...}">>) }

JobResponsesOther == { Http(500, TRUE, EmptyDict, <<"body of ", ToString(500)>>) }

\* the transcripts a session may come to hold, by their lengths
JobTranscripts == { Transcript(n) : n \in TranscriptLens }

\* the items behind a transcript of the job specifications are not recorded
Unrecorded == [kind |-> "unrecorded"]

\* calls of extract_transcript_details that return the transcripts of `ts`
Returning(ts) ==
    { [link |-> l, data |-> Unrecorded, out |-> Return(t)] :
        l \in YoutubeLinks, t \in ts }

\* a source is initialized before the job starts; a behaviour follows one job
LoadTranscript == pc = "idle" /\ InitializeYouTubeFrom(Returning(JobTranscripts))
StartWebpage == StartWebpageFrom(SplitTexts) /\ UNCHANGED loadVars
JobGetSummary == pc = "idle" /\ StartGetSummary
Respond200 == pc \in {"chunk", "fold"} /\ \E o \in JobResponses200 : Request(o)
Respond429 == pc \in {"chunk", "fold"} /\ Request(Response429)
RespondOther == pc \in {"chunk", "fold"} /\ \E o \in JobResponsesOther : Request(o)
RespondTimeout == pc \in {"chunk", "fold"} /\ Request(TimeoutOutcome)
RespondException == pc \in {"chunk", "fold"} /\ Request(ExceptionOutcome)

Init == JobInit /\ LoadIdle /\ initialize_session_state

Next ==
    \/ LoadTranscript
    \/ StartWebpage
    \/ JobGetSummary
    \/ Respond200
    \/ Respond429
    \/ RespondOther
    \/ RespondTimeout
    \/ RespondException

\* the summarization jobs, request by request
Spec == Init /\ [][Next]_vars

\* a request sent is answered or fails: requests.post returns or raises
\* (timeout=30 in call_groq_api_for_webpage) and time.sleep ends
AnyResponse ==
    Respond200 \/ Respond429 \/ RespondOther \/ RespondTimeout \/ RespondException

LiveSplits == { sp \in SplitTexts : Len(sp) <= LiveChunks }

LiveStartWebpage == StartWebpageFrom(LiveSplits) /\ UNCHANGED loadVars

NextLive ==
    \/ LiveStartWebpage
    \/ Respond200
    \/ Respond429
    \/ RespondOther
    \/ RespondTimeout
    \/ RespondException

\* the webpage jobs, every request sent getting its outcome
SpecLive == Init /\ [][NextLive]_vars /\ WF_vars(AnyResponse)

\* ---------------------------------------- one completion call, every outcome

\* the splitter's answers of at most one piece, the transcripts of one chunk
SingleSplits == { sp \in SplitTexts : Len(sp) <= 1 }
SingleTranscripts == { Transcript(n) : n \in { m \in TranscriptLens : m <= YtChunkSize } }

CallLoadTranscript == pc = "idle" /\ InitializeYouTubeFrom(Returning(SingleTranscripts))
CallStartWebpage == StartWebpageFrom(SingleSplits) /\ UNCHANGED loadVars
CallStartGetSummary == pc = "idle" /\ StartGetSummary
Call200 == pc \in {"chunk", "fold"} /\ \E o \in Responses200 : Request(o)
Call429 == pc \in {"chunk", "fold"} /\ Request(Response429)
CallOther == pc \in {"chunk", "fold"} /\ \E o \in ResponsesOther : Request(o)
CallTimeout == pc \in {"chunk", "fold"} /\ Request(TimeoutOutcome)
CallException == pc \in {"chunk", "fold"} /\ Request(ExceptionOutcome)

NextCall ==
    \/ CallLoadTranscript
    \/ CallStartWebpage
    \/ CallStartGetSummary
    \/ Call200
    \/ Call429
    \/ CallOther
    \/ CallTimeout
    \/ CallException

\* the single completion call of a one-chunk job, under every outcome of
\* each of its requests
SpecCall == Init /\ [][NextCall]_vars

\* ------------------------------------------- the loader over every listing

NextLoad == LoadStart \/ LoadNext

\* load_documents over every directory listing, file by file
SpecLoad == Init /\ [][NextLoad]_vars

\* ------------------------------------------ the transcript chunker alone

\* chunk_transcript(transcript, chunk_size) applied to a transcript of up to
\* MaxEntries entries with a chunk_size of 1..MaxSize: source records the
\* arguments and chunks the list returned
ChunkTranscript ==
    /\ \E n \in 0..MaxEntries, chunk_size \in 1..MaxSize :
         /\ source' = [kind |-> "transcript", transcript |-> Transcript(n),
                       chunk_size |-> chunk_size]
         /\ chunks' = chunk_transcript(Transcript(n), chunk_size)
    /\ UNCHANGED <<job, pc, summaries, call, lastCall, calls, nreq, result,
                   loadVars, sessVars>>

NextChunk == ChunkTranscript

\* chunk_transcript over every transcript length and chunk size
SpecChunk == Init /\ [][NextChunk]_vars

\* ----------------------------------------------------------- the session

NextSession ==
    \/ InitializeYouTube
    \/ InitializeRAG
    \/ SummarizeWebpage
    \/ GetSummary
    \/ AskQuestion

\* the session under every sequence of its handlers
SpecSession == Init /\ [][NextSession]_vars

\* ===================================================================== claims

Is429(o) == o.kind = "http" /\ o.status = 429
Is200(o) == o.kind = "http" /\ o.status = 200
IsOtherStatus(o) == o.kind = "http" /\ o.status \notin {200, 429}

\* the 200 response carries a text at choices[0].message.content
HasContentText(o) ==
    /\ Is200(o)
    /\ o.jsonOk
    /\ "choices" \in DOMAIN o.json
    /\ Len(o.json.choices) >= 1
    /\ "message" \in DOMAIN o.json.choices[1]
    /\ "content" \in DOMAIN o.json.choices[1].message
    /\ o.json.choices[1].message.content.type = "str"

ContentText(o) == o.json.choices[1].message.content.s

RECURSIVE SumSeq(_)
SumSeq(q) == IF q = <<>> THEN 0 ELSE Head(q) + SumSeq(Tail(q))

\* C2: a completion call that receives 429, 429 and then a 200 carrying a
\* message text returns that text (whitespace-trimmed), has sent exactly three
\* requests and has slept exactly twice, 10 s and then 20 s, both sleeps done
\* when the third request is sent.
C2_TwoRateLimitsThenSuccess ==
    /\ (call.attempt = 2 /\ pc = "chunk") => call.sleeps = <<10, 20>>
    /\ ( /\ lastCall.ended
         /\ Len(lastCall.hist) >= 3
         /\ Is429(lastCall.hist[1])
         /\ Is429(lastCall.hist[2])
         /\ HasContentText(lastCall.hist[3]) )
       => /\ ~lastCall.raised
          /\ lastCall.value = Strip(ContentText(lastCall.hist[3]))
          /\ Len(lastCall.hist) = 3
          /\ nreq = 3
          /\ lastCall.sleeps = <<10, 20>>

C2_Witness ==
    /\ lastCall.ended
    /\ lastCall.client = "yt"
    /\ Len(lastCall.hist) = 3
    /\ Is429(lastCall.hist[1])
    /\ Is429(lastCall.hist[2])
    /\ HasContentText(lastCall.hist[3])
    /\ lastCall.value = <<"summary">>

\* the sleeps of a call whose requests had the outcomes hist: one after each
\* 429, of min(60, 10 * 2^a) seconds after the 429 of attempt a
SleepsAsClaimed(hist, sleeps) ==
    /\ Len(sleeps) = Cardinality({ k \in 1..Len(hist) : Is429(hist[k]) })
    /\ \A k \in 1..Len(sleeps) :
         /\ Is429(hist[k])
         /\ sleeps[k] = (IF 10 * (2 ^ (k - 1)) < 60 THEN 10 * (2 ^ (k - 1)) ELSE 60)

\* C3: whatever the responses, a completion call sends at most 3 requests,
\* sleeps min(60, 10 * 2^a) seconds after a 429 on attempt a, never sleeps more
\* than 90 seconds in total, and returns 'Error: Too many retries due to rate
\* limit.' when all three attempts receive 429.
C3_BoundedRetries ==
    /\ Len(call.hist) < 3
    /\ Len(lastCall.hist) <= 3
    /\ nreq <= 3
    /\ SleepsAsClaimed(call.hist, call.sleeps)
    /\ SleepsAsClaimed(lastCall.hist, lastCall.sleeps)
    /\ SumSeq(call.sleeps) <= 90
    /\ SumSeq(lastCall.sleeps) <= 90
    /\ (lastCall.ended /\ Len(lastCall.hist) = 3
        /\ \A k \in 1..3 : Is429(lastCall.hist[k]))
       => (~lastCall.raised
           /\ lastCall.value = <<"Error: Too many retries due to rate limit.">>)

C3_Witness ==
    /\ lastCall.ended
    /\ Len(lastCall.hist) = 3
    /\ \A k \in 1..3 : Is429(lastCall.hist[k])
    /\ lastCall.sleeps = <<10, 20, 40>>
    /\ lastCall.value = <<"Error: Too many retries due to rate limit.">>

IsErrorString(v) == v # <<>> /\ Head(v) \in {"Error: ", "Error: Request timeout. Please try again."}

\* C4: in both completion clients a transport timeout on any attempt makes the
\* call return an error string at once: the timed-out request is the last one,
\* no sleep follows it and no exception reaches the caller.
C4_TimeoutReturnsError ==
    /\ \A k \in 1..Len(call.hist) : call.hist[k].kind # "timeout"
    /\ \A k \in 1..Len(lastCall.hist) :
         lastCall.hist[k].kind = "timeout"
         => /\ k = Len(lastCall.hist)
            /\ Len(lastCall.sleeps) = k - 1
            /\ ~lastCall.raised
            /\ IsErrorString(lastCall.value)

\* C5: a response whose status is neither 200 nor 429 ends the call at once
\* with the error result 'Error: <status>, <body>': it is the call's last
\* request and no sleep follows it, whatever attempts preceded it.
C5_OtherStatusIsTerminal ==
    /\ \A k \in 1..Len(call.hist) : ~IsOtherStatus(call.hist[k])
    /\ \A k \in 1..Len(lastCall.hist) :
         IsOtherStatus(lastCall.hist[k])
         => /\ k = Len(lastCall.hist)
            /\ Len(lastCall.sleeps) = k - 1
            /\ ~lastCall.raised
            /\ lastCall.value =
                 <<"Error: ", ToString(lastCall.hist[k].status), ", ">>
                 \o lastCall.hist[k].text

C5_Witness ==
    /\ lastCall.ended
    /\ Len(lastCall.hist) = 2
    /\ Is429(lastCall.hist[1])
    /\ IsOtherStatus(lastCall.hist[2])
    /\ lastCall.hist[2].status = 500
    /\ lastCall.sleeps = <<10>>

\* C6: on a 200 response the call returns the text at
\* choices[0].message.content, and on a 200 response whose payload is present
\* but empty (choices missing or empty, message missing, content missing or
\* empty) it returns 'No response from model.', never raising and never
\* returning the empty string.
C6_EmptyPayloadGivesPlaceholder ==
    lastCall.ended =>
      LET last == lastCall.hist[Len(lastCall.hist)] IN
      /\ (Is200(last) /\ last.jsonOk /\ last.json \in EmptyPayloads)
         => (~lastCall.raised /\ lastCall.value = <<"No response from model.">>)
      /\ (HasContentText(last) /\ last.json \in GoodPayloads)
         => (~lastCall.raised /\ lastCall.value = Strip(ContentText(last)))

RECURSIVE LabelledParts(_, _, _)
\* 'Part i: <result of call i>' for i = from..n, separated by blank lines
LabelledParts(cs, from, n) ==
    IF from > n THEN <<>>
    ELSE <<"Part ", ToString(from), ": ">> \o cs[from].value
         \o (IF from < n THEN <<"\n\n">> ELSE <<>>)
         \o LabelledParts(cs, from + 1, n)

\* the completion calls the job has issued: those that ended and the one running
Issued == Len(calls) + (IF pc \in {"chunk", "fold"} THEN 1 ELSE 0)

\* C1: a webpage job over N >= 1 chunks issues exactly 1 completion call when
\* N = 1 and exactly N + 1 when N > 1; for N > 1 the content of the last call
\* is the N partial summaries labelled 'Part 1' .. 'Part N' in chunk order and
\* the job's result is that call's output; for N = 1 the result is the single
\* partial summary.
C1_HierarchicalFold ==
    (job = "web" /\ chunks # <<>>) =>
      LET n == Len(chunks) IN
      /\ Issued <= (IF n = 1 THEN 1 ELSE n + 1)
      /\ pc = "done" =>
           /\ Len(calls) = (IF n = 1 THEN 1 ELSE n + 1)
           /\ result[2] = None
           /\ result[1].summary = calls[Len(calls)].value
           /\ n > 1 => calls[n + 1].content = LabelledParts(calls, 1, n)
           /\ \A k \in 1..n : calls[k].content = chunks[k]

C1_Witness ==
    /\ job = "web"
    /\ pc = "done"
    /\ Len(chunks) = 3
    /\ Len(calls) = 4
    /\ calls[4].content =
         <<"Part ", "1", ": ", "summary", "\n\n", "Part ", "2", ": ", "summary",
           "\n\n", "Part ", "3", ": ", "summary">>
    /\ result[1].summary = <<"summary">>

\* the transitions of a webpage job: a partial summary is added per chunk call,
\* the fold starts only after the last of several chunks, the job ends only
\* after the single chunk's call or after the fold
C8_Step ==
    (job = "web" /\ pc \in {"chunk", "fold"} /\ pc' # pc) =>
      /\ pc = "chunk" /\ pc' = "fold"
           => (Len(chunks) > 1 /\ Len(summaries') = Len(chunks))
      /\ pc = "chunk" /\ pc' = "done"
           => (Len(chunks) = 1 /\ Len(summaries') = 1)
      /\ pc = "fold" => pc' = "done"
      /\ pc' \in {"fold", "done"}

C8_Progress ==
    (job = "web" /\ pc \in {"chunk", "fold"}) =>
      /\ Len(summaries') \in {Len(summaries), Len(summaries) + 1}
      /\ Len(summaries') = Len(summaries) + 1 => pc = "chunk"
      /\ SubSeq(summaries', 1, Len(summaries)) = summaries

C8_State ==
    job = "web" =>
      /\ pc \in {"chunk", "fold", "done"}
      /\ Len(summaries) <= Len(chunks)
      /\ pc = "chunk" => Len(summaries) < Len(chunks)
      /\ \A k \in 1..Len(summaries) :
           ~calls[k].raised /\ summaries[k] = calls[k].value
      /\ pc = "fold" =>
           /\ Len(summaries) = Len(chunks)
           /\ call.content = LabelledParts(calls, 1, Len(chunks))
      /\ (pc = "done" /\ chunks # <<>>) =>
           /\ Len(summaries) = Len(chunks)
           /\ result[2] = None

\* C8: a webpage job has no terminal error state: its partial summaries grow
\* one per chunk in chunk order (PENDING, PARTIAL(i/N)), the fold follows the
\* last of N > 1 chunks, then the job is done; the error string a failed chunk
\* call returns is stored as that chunk's partial summary, the remaining
\* chunks are still processed and the string stands at its position in the
\* fold input.
C8_NoTerminalError == [](C8_State) /\ [][C8_Step /\ C8_Progress]_vars

C8_Witness ==
    /\ job = "web"
    /\ pc = "done"
    /\ Len(chunks) = 3
    /\ summaries[2] = <<"Error: Request timeout. Please try again.">>
    /\ summaries[3] = <<"summary">>
    /\ calls[4].content =
         <<"Part ", "1", ": ", "Error: ", "list index out of range", "\n\n",
           "Part ", "2", ": ", "Error: Request timeout. Please try again.", "\n\n",
           "Part ", "3", ": ", "summary">>

\* C9: load_documents is best-effort across files: a file with an unrecognized
\* extension is skipped, a file whose loader fails does not stop the files
\* after it, the result is the concatenation in listing order of the records
\* of exactly the recognized files that loaded, and it is the empty sequence,
\* with no exception, when every file fails.
C9_BestEffortLoad ==
    LET recognized(f) ==
            f.ext \in {".pdf", ".docx", ".txt", ".csv", ".html", ".md", ".PDF"}
        loaded == { k \in 1..idx : recognized(listing[k]) /\ ~listing[k].raises }
        records(k) == { <<k, j>> : j \in 1..listing[k].ndocs }
        expected == UNION { records(k) : k \in loaded }
        position(d) ==
            CHOOSE i \in 1..Len(documents) :
                documents[i] = [source |-> listing[d[1]].name, page |-> d[2]]
    IN  /\ loadPc # "raised"
        /\ loadPc = "returned" => idx = Len(listing)
        /\ loadPc = "loading" => idx < Len(listing)
        /\ Len(documents) = Cardinality(expected)
        /\ \A d \in expected :
             \E i \in 1..Len(documents) :
                documents[i] = [source |-> listing[d[1]].name, page |-> d[2]]
        /\ \A d, e \in expected :
             (d[1] < e[1] \/ (d[1] = e[1] /\ d[2] < e[2]))
             => position(d) < position(e)
        /\ (loaded = {}) => documents = <<>>

C9_Witness ==
    /\ loadPc = "returned"
    /\ Len(listing) = 2
    /\ listing[1].ext = ".txt" /\ listing[1].raises
    /\ listing[2].ext = ".PDF" /\ listing[2].ndocs = 2
    /\ Len(documents) = 2

\* C10: chunk_webpage_content returns the input as its only chunk for a
\* non-empty content shorter than chunk_size and no chunk for an empty
\* content; for such single-chunk content summarize_webpage issues exactly one
\* completion call, with the 'comprehensive summary' instruction and not the
\* part-N-of-M one.
C10_ShortContentSingleChunk ==
    (job = "web" /\ source.kind = "page") =>
      /\ source.content = <<>> =>
           (chunks = <<>> /\ pc = "done" /\ calls = <<>> /\ nreq = 0
            /\ result[1] = None)
      /\ (source.content # <<>> /\ PyLen(source.content) < 2000) =>
           /\ chunks = <<source.content>>
           /\ Issued = 1
           /\ pc = "chunk" =>
                /\ call.prompt = ComprehensivePrompt
                /\ call.content = source.content
           /\ pc = "done" =>
                /\ calls[1].prompt =
                     <<"Provide a comprehensive summary of this webpage content. Include key points, main ideas, and important details:">>
                /\ calls[1].prompt # PartPrompt(1, 1)
                /\ calls[1].content = source.content

C10_Witness ==
    /\ job = "web"
    /\ pc = "done"
    /\ source.kind = "page"
    /\ source.content = <<"B", "x">>
    /\ chunks = <<<<"B", "x">>>>
    /\ Len(calls) = 1
    /\ calls[1].prompt = ComprehensivePrompt

\* C7: after "Initialize RAG System" has run on a directory that yields no
\* documents (load_documents returns [], process_documents returns None),
\* whatever the session held before, every later question gets the 'no
\* documents' answer and the language model is not called for it.
C7_NoDocumentsAnswer ==
    (noDocs /\ lastQuery.asked) =>
      (~lastQuery.llm /\ lastQuery.answer = <<"No documents to process.">>)

\* the instruction names part i and the total m, in this order
EncodesPart(prompt, i, m) ==
    \E a, b \in 1..Len(prompt) :
      a < b /\ prompt[a] = ToString(i) /\ prompt[b] = ToString(m)

\* what a finished job shows as its summary: the webpage summary, or the list
\* of summaries of the "Get Summary" handler
JobOutput ==
    IF job = "web" THEN <<result[1].summary>> ELSE result.final_summary

\* C11: in every summarization job over M > 1 chunks, of a webpage or of a
\* YouTube transcript, the instruction sent with chunk i names both i and M,
\* and the job ends with one more completion call (M + 1 in all) whose output
\* is the job's result.
C11_PartOfWholeAndFold ==
    (job \in {"web", "yt"} /\ Len(chunks) > 1) =>
      LET m == Len(chunks) IN
      /\ \A k \in 1..Len(calls) : k <= m => EncodesPart(calls[k].prompt, k, m)
      /\ pc = "chunk" => EncodesPart(call.prompt, Len(calls) + 1, m)
      /\ pc = "done" =>
           /\ Len(calls) = m + 1
           /\ JobOutput = <<calls[m + 1].value>>

\* C12: query never raises. When qa_chain.invoke fails, in the retrieval or in
\* the language model, query returns 'Error processing query: <failure>' and
\* the handler appends it to chat_history as the assistant's message, right
\* after the user's question.
C12_QueryFailureIsTheAnswer ==
    lastQuery.asked =>
      /\ ~lastQuery.raised
      /\ lastQuery.failed =>
           LET n == Len(chat_history) IN
           /\ n >= 2
           /\ chat_history[n - 1] = [role |-> "user", content |-> lastQuery.question]
           /\ chat_history[n] =
                [role |-> "assistant",
                 content |-> <<"Error processing query: ">> \o lastQuery.failure]
           /\ lastQuery.answer = chat_history[n].content

C12_Witness ==
    /\ lastQuery.asked
    /\ lastQuery.failed
    /\ ~lastQuery.llm
    /\ Len(chat_history) = 4
    /\ chat_history[3] = [role |-> "user", content |-> <<"question">>]
    /\ chat_history[4] =
         [role |-> "assistant",
          content |-> <<"Error processing query: ", "embedding failed">>]

\* C13: once "Initialize RAG System" has run in a session that held a QA
\* chain, whether the rebuild succeeded or failed, no later question is
\* answered by the chain the session held before that run.
C13_RebuildDiscardsOldIndex ==
    (lastQuery.asked /\ prevChain # None) => lastQuery.chain # prevChain.id

\* C14: when the URL is malformed, the extraction fails or is empty, or the
\* content yields no chunk, summarize_webpage returns (None, error message)
\* without raising and without a completion call; whatever the outcome,
\* exactly one element of the pair it returns is None.
C14_InputErrorsAreResults ==
    job = "web" =>
      /\ pc # "raised"
      /\ (source.kind = "none" \/ source.content = <<>> \/ chunks = <<>>) =>
           /\ pc = "done"
           /\ calls = <<>>
           /\ nreq = 0
           /\ result[1] = None
           /\ result[2] # None
           /\ result[2].val # <<>>
           /\ source.kind = "none" => result[2].val \in ExtractionErrors
      /\ pc = "done" => ((result[1] = None) # (result[2] = None))

\* the URL is malformed: the error of extract_webpage_content is the result
C14_Witness ==
    /\ job = "web"
    /\ pc = "done"
    /\ source.kind = "none"
    /\ nreq = 0
    /\ result = <<None, Some(<<"Invalid URL format. Please provide a valid URL starting with http:// or https://">>)>>

\* the list is an error result for the handler: transcript_text[0][0] == "Error"
IsErrorResult(v) == v # <<>> /\ v[1][1] = <<"Error">>

\* the message of the failure of the transcript API
FailureMessage(data) ==
    IF data.kind = "none" THEN <<"No suitable transcript found.">>
    ELSE IF data.kind = "disabled" THEN <<"Transcripts are disabled for this video.">>
    ELSE data.msg

\* C15: extract_transcript_details never raises; for an invalid URL, no
\* suitable transcript, disabled transcripts and any other fault it returns
\* the one-element list [('Error', message)]. When "Initialize YouTube
\* Summary" receives such a list transcript_text is None afterwards, and the
\* session never holds an error list as its transcript, so "Get Summary" has
\* nothing to summarize.
C15_TranscriptErrorsAreSentinels ==
    /\ \A r \in TranscriptResults :
         extract_video_id(r.link) = None
           => r.out = Return(<< <<<<"Error">>, <<"Invalid YouTube URL.">>>> >>)
    /\ fetched.called =>
         /\ fetched.out.act = "return"
         /\ fetched.data.kind \in {"none", "disabled", "fault"} =>
              fetched.out.value = << <<<<"Error">>, FailureMessage(fetched.data)>> >>
         /\ IsErrorResult(fetched.out.value) => transcript_text = None
    /\ transcript_text # None => ~IsErrorResult(transcript_text.val)

C15_Witness ==
    /\ fetched.called
    /\ fetched.data.kind = "fault"
    /\ fetched.out.value =
         << <<<<"Error">>, <<"YouTube is blocking requests from your IP">>>> >>
    /\ video_id # None
    /\ transcript_text = None
    /\ summary_generated

\* the lines '[ts] text' of entries a..b of a transcript, one per line
EntryLines(t, a, b) ==
    Join(<<"\n">>,
         [k \in 1..(b - a + 1) |-> <<"[">> \o t[a + k - 1][1] \o <<"] ">> \o t[a + k - 1][2]])

\* C16: for a transcript of L entries and chunk_size s >= 1, chunk_transcript
\* returns ceil(L / s) chunks; chunk c is the lines, each with its own
\* timestamp, of the consecutive entries (c-1)s+1 .. min(cs, L), so at most s
\* entries and every entry in exactly one chunk; the chunks in order give the
\* entries in their original order; an empty transcript gives no chunk.
C16_ChunkTranscriptPartitions ==
    source.kind = "transcript" =>
      LET t == source.transcript
          s == source.chunk_size
          L == Len(t)
      IN  /\ Len(chunks) = (L + s - 1) \div s
          /\ \A c \in 1..Len(chunks) :
               chunks[c] = EntryLines(t, (c - 1) * s + 1, Min(c * s, L))
          /\ Join(<<"\n">>, chunks) = EntryLines(t, 1, L)
          /\ L = 0 => chunks = <<>>

\* 11 entries in chunks of 4: three chunks, the last of 3 entries
C16_Witness ==
    /\ source.kind = "transcript"
    /\ Len(source.transcript) = 11
    /\ source.chunk_size = 4
    /\ Len(chunks) = 3
    /\ chunks[3] =
         <<"[", "ts", "9", "] ", "line ", "9", "\n",
           "[", "ts", "10", "] ", "line ", "10", "\n",
           "[", "ts", "11", "] ", "line ", "11">>

RECURSIVE LeaderOf(_, _)
\* the index of the first item of the group item i belongs to: item 1 leads,
\* and an item leads when it starts 30 seconds or more after the leader of
\* the item before it
LeaderOf(items, i) ==
    IF i = 1 THEN 1
    ELSE LET before == LeaderOf(items, i - 1) IN
         IF items[i].start - items[before].start >= 30 THEN i ELSE before

Leaders(items) == { LeaderOf(items, i) : i \in 1..Len(items) }

\* the leader of the g-th group
NthLeader(items, g) ==
    CHOOSE i \in Leaders(items) :
      Cardinality({ j \in Leaders(items) : j <= i }) = g

\* the texts of the items led by item a, in order, separated by spaces
GroupText(items, a) ==
    LET n == Cardinality({ i \in 1..Len(items) : LeaderOf(items, i) = a }) IN
    Join(<<" ">>, [k \in 1..n |-> items[a + k - 1].text])

\* C17: for items with start times >= 0 that do not decrease,
\* extract_transcript_details returns one group per item that starts at least
\* 30 seconds after the first item of the group before it (the first item
\* always opens a group, also at time 0); a group's label is the mm:ss
\* timestamp of its first item and its text is the texts of its items in
\* order, so every item is in exactly one group and the order is kept.
C17_GroupsOfThirtySeconds ==
    (fetched.called /\ fetched.data.kind \in {"items", "translated"}) =>
      LET items == fetched.data.items
          groups == fetched.out.value
      IN  /\ fetched.out.act = "return"
          /\ Len(groups) = Cardinality(Leaders(items))
          /\ \A g \in 1..Len(groups) :
               LET a == NthLeader(items, g) IN
               /\ groups[g][1] = Timestamp(items[a].start)
               /\ groups[g][2] = GroupText(items, a)
          /\ items # <<>> => groups[1][1] = Timestamp(items[1].start)
          /\ Join(<<" ">>, [g \in 1..Len(groups) |-> groups[g][2]])
               = Join(<<" ">>, [i \in 1..Len(items) |-> items[i].text])

\* items at 0, 29 and 61 seconds: the group of 00:00 holds the first two
C17_Witness ==
    /\ fetched.called
    /\ fetched.data.kind = "items"
    /\ Len(fetched.data.items) = 3
    /\ fetched.data.items[1].start = 0
    /\ fetched.data.items[2].start = 29
    /\ fetched.data.items[3].start = 61
    /\ fetched.out.value =
         << << <<"0", "0", ":", "0", "0">>, <<"text ", "1", " ", "text ", "2">> >>,
            << <<"0", "1", ":", "0", "1">>, <<"text ", "3">> >> >>
    /\ transcript_text = Some(fetched.out.value)

\* the sources the session holds: the non-null ones of transcript_text,
\* qa_chain and webpage_summary
ActiveSources ==
    { f \in {"transcript_text", "qa_chain", "webpage_summary"} :
        \/ f = "transcript_text" /\ transcript_text # None
        \/ f = "qa_chain" /\ qa_chain # None
        \/ f = "webpage_summary" /\ webpage_summary # None }

\* C18: after any sequence of "Initialize YouTube Summary", "Initialize RAG
\* System" and "Summarize Webpage", each succeeding or failing, at most one of
\* transcript_text, qa_chain and webpage_summary is set.
C18_AtMostOneSource == Cardinality(ActiveSources) <= 1

\* a webpage summary in a session that had built a RAG system before
C18_Witness ==
    /\ runs >= 1
    /\ webpage_summary # None
    /\ qa_chain = None
    /\ rag_system = None
    /\ transcript_text = None

\* C19: a completion call that has ended after r requests has slept at most
\* r - 1 times: no backoff sleep follows the last request.
C19_NoSleepAfterLastRequest ==
    lastCall.ended => Len(lastCall.sleeps) <= Len(lastCall.hist) - 1

\* C20: once the extraction has returned, a webpage job over N chunks sends at
\* most 3 * (N + 1) requests and, whatever the outcome of each request (200,
\* 429, another status, timeout, another exception), ends with a result.
C20_WebJobTerminates ==
    /\ [](job = "web" => nreq <= 3 * (Len(chunks) + 1))
    /\ (job = "web" /\ pc \in {"chunk", "fold"})
         ~> (job = "web" /\ pc = "done" /\ Len(result) = 2)

\* two chunks and the fold, every request rate limited: 9 requests
C20_Witness ==
    /\ job = "web"
    /\ pc = "done"
    /\ Len(chunks) = 2
    /\ nreq = 9
    /\ result[1].summary = <<"Error: Too many retries due to rate limit.">>
    /\ result[2] = None

\* C21: whenever the handling of a question is complete chat_history has even
\* length and alternates user, assistant: every question is followed at once
\* by exactly one assistant message, whether the query answered or failed.
C21_HistoryAlternates ==
    LET n == Len(chat_history) IN
    /\ n % 2 = 0
    /\ \A k \in 1..n :
         chat_history[k].role = (IF k % 2 = 1 THEN "user" ELSE "assistant")
    /\ lastQuery.asked =>
         /\ n >= 2
         /\ chat_history[n - 1] = [role |-> "user", content |-> lastQuery.question]
         /\ chat_history[n].content = lastQuery.answer

\* a question whose query failed in the language model, then one answered
C21_Witness ==
    /\ Len(chat_history) = 4
    /\ chat_history[1].role = "user"
    /\ chat_history[2] =
         [role |-> "assistant",
          content |-> <<"Error processing query: ", "rate limit exceeded">>]
    /\ chat_history[3].role = "user"
    /\ chat_history[4] = [role |-> "assistant", content |-> <<"answer">>]
    /\ lastQuery.asked

\* C22: when "Initialize RAG System" has just built a new QA chain, and no
\* question was asked since, chat_history holds no message of the
\* conversation with an earlier chain: it is empty, as it is whenever the
\* session holds no QA chain ("Initialize YouTube Summary" and "Summarize
\* Webpage" empty it).
C22_RebuildResetsConversation ==
    /\ (qa_chain # None /\ qa_chain # prevChain /\ ~lastQuery.asked)
         => chat_history = <<>>
    /\ qa_chain = None => chat_history = <<>>

====
